---------------------------- MODULE Spec2Model ----------------------------
(***************************************************************************)
(* Model of netnode.py: the Netnode key-value store layered on an IDA      *)
(* netnode.  The netnode (self._n) is modelled as its tagged arrays:       *)
(*   sup[tag]  : integer-indexed array; blobs live in these arrays too     *)
(*               (setblob/getblob/delblob with a tag address sup[tag]);    *)
(*   hash[tag] : string-indexed array.                                     *)
(* An array is a function whose DOMAIN is the set of indexes that hold a   *)
(* value; a netnode call that returns None is an index outside the DOMAIN. *)
(* A blob is held whole at its start index.                                *)
(* String keys are named by their rank in the hash array's native order.   *)
(***************************************************************************)
EXTENDS Integers, Sequences, FiniteSets, TLC

\* ---- bounds of the model ----
MaxIntKey == 2
MaxStrKey == 2
MaxValue == 2

\* ---- constants of the program ----
BLOB_SIZE == 1024
INT_KEYS_TAG == "M"
STR_KEYS_TAG == "N"
STR_TO_INT_MAP_TAG == "O"
\* the tags the netnode API uses when the caller passes none
DEFAULT_SUP_TAG == "S"
DEFAULT_HASH_TAG == "H"
\* idaapi.BADNODE: the all-ones node index, above every usable index
BADNODE == 2147483647

SupTags == {DEFAULT_SUP_TAG, INT_KEYS_TAG, STR_KEYS_TAG}
HashTags == {DEFAULT_HASH_TAG, STR_KEYS_TAG, STR_TO_INT_MAP_TAG}

IntKeys == [kind : {"int"}, id : 1..MaxIntKey]
StrKeys == [kind : {"str"}, id : 1..MaxStrKey]
OtherKeys == [kind : {"other"}, id : {0}]
ValidKeys == IntKeys \cup StrKeys
AllKeys == ValidKeys \cup OtherKeys
Values == 1..MaxValue
NoValue == 0

VARIABLES
    n,        \* self._n: the netnode, [sup |-> [tag -> array], hash |-> [tag -> array]]
    live,     \* history: keys set and not deleted (or killed) since
    written,  \* history: keys ever set
    last      \* history: the last public call and its outcome

vars == <<n, live, written, last>>

\* ---- arrays ----
EmptyArray == [i \in {} |-> NoValue]
ArraySet(a, i, v) == [j \in (DOMAIN a) \cup {i} |-> IF j = i THEN v ELSE a[j]]
ArrayDel(a, i) == [j \in (DOMAIN a) \ {i} |-> a[j]]
SetMin(S) == CHOOSE x \in S : \A y \in S : x <= y
SetMax(S) == CHOOSE x \in S : \A y \in S : x >= y

\* ---- the netnode API, as netnode.py calls it ----
\* idaapi.netnode(name, 0, True) on a name that does not exist: an empty netnode
netnode == [sup |-> [t \in SupTags |-> EmptyArray], hash |-> [t \in HashTags |-> EmptyArray]]

supval_is_set(nn, key, tag) == key \in DOMAIN nn.sup[tag]
supval(nn, key, tag) == nn.sup[tag][key]
supset(nn, key, value, tag) == [nn EXCEPT !.sup[tag] = ArraySet(@, key, value)]
supdel(nn, key, tag) == [nn EXCEPT !.sup[tag] = ArrayDel(@, key)]
sup1st(nn, tag) == IF DOMAIN nn.sup[tag] = {} THEN BADNODE ELSE SetMin(DOMAIN nn.sup[tag])
supnxt(nn, i, tag) ==
    LET after == {j \in DOMAIN nn.sup[tag] : j > i}
    IN  IF after = {} THEN BADNODE ELSE SetMin(after)
\* suplast: index of the last existing element of the array, BADNODE if it is empty
suplast(nn, tag) == IF DOMAIN nn.sup[tag] = {} THEN BADNODE ELSE SetMax(DOMAIN nn.sup[tag])

getblob_is_set(nn, key, tag) == key \in DOMAIN nn.sup[tag]
getblob(nn, key, tag) == nn.sup[tag][key]
setblob(nn, value, key, tag) == [nn EXCEPT !.sup[tag] = ArraySet(@, key, value)]
delblob(nn, key, tag) == [nn EXCEPT !.sup[tag] = ArrayDel(@, key)]

hashval_is_set(nn, key, tag) == key \in DOMAIN nn.hash[tag]
hashval(nn, key, tag) == nn.hash[tag][key]
hashset(nn, key, value, tag) == [nn EXCEPT !.hash[tag] = ArraySet(@, key, value)]
hashdel(nn, key, tag) == [nn EXCEPT !.hash[tag] = ArrayDel(@, key)]
hash1st(nn, tag) == IF DOMAIN nn.hash[tag] = {} THEN BADNODE ELSE SetMin(DOMAIN nn.hash[tag])
hashnxt(nn, i, tag) ==
    LET after == {j \in DOMAIN nn.hash[tag] : j > i}
    IN  IF after = {} THEN BADNODE ELSE SetMin(after)

\* ---- codec ----
\* len(zlib.compress(json.dumps(value))): values 1, 4, 7.. compress to at most
\* BLOB_SIZE bytes, the others to more; values 1 and 2 sit on either side of the
\* threshold
CompressedLen(value) ==
    IF value % 3 = 1 THEN BLOB_SIZE + 1 - value ELSE BLOB_SIZE - 1 + value
_encode(data) == [json |-> data]
_compress(data) == [z |-> data, len |-> CompressedLen(data.json)]
_decompress(data) == data.z
_decode(data) == data.json
len(v) == v.len

\* ---- results of a call ----
Returned(v) == [status |-> "ok", value |-> v]
Raised(e) == [status |-> e, value |-> NoValue]

\* ---- integer keys ----
_intdel(nn, key) ==
    LET has_blob == getblob_is_set(nn, key, INT_KEYS_TAG)
        n1 == IF has_blob THEN delblob(nn, key, INT_KEYS_TAG) ELSE nn
        has_sup == supval_is_set(n1, key, DEFAULT_SUP_TAG)
        n2 == IF has_sup THEN supdel(n1, key, DEFAULT_SUP_TAG) ELSE n1
        did_del == has_blob \/ has_sup
    IN  [n |-> n2, status |-> IF did_del THEN "ok" ELSE "KeyError"]

\* _intset that writes without first removing the key's other placement
_intset_no_del(nn, key, value) ==
    IF len(value) > BLOB_SIZE
    THEN setblob(nn, value, key, INT_KEYS_TAG)
    ELSE supset(nn, key, value, DEFAULT_SUP_TAG)

_intset(nn, key, value) ==
    LET n1 == _intdel(nn, key).n
    IN  IF len(value) > BLOB_SIZE
        THEN setblob(n1, value, key, INT_KEYS_TAG)
        ELSE supset(n1, key, value, DEFAULT_SUP_TAG)

_intget(nn, key) ==
    IF getblob_is_set(nn, key, INT_KEYS_TAG)
    THEN Returned(getblob(nn, key, INT_KEYS_TAG))
    ELSE IF supval_is_set(nn, key, DEFAULT_SUP_TAG)
    THEN Returned(supval(nn, key, DEFAULT_SUP_TAG))
    ELSE Raised("KeyError")

\* ---- string keys ----
_strdel(nn, key) ==
    LET has_link == hashval_is_set(nn, key, STR_TO_INT_MAP_TAG)
        n1 == IF has_link
              THEN hashdel(delblob(nn, hashval(nn, key, STR_TO_INT_MAP_TAG), STR_KEYS_TAG),
                           key, DEFAULT_HASH_TAG)
              ELSE nn
        has_hash == hashval_is_set(n1, key, DEFAULT_HASH_TAG)
        n2 == IF has_hash THEN hashdel(n1, key, DEFAULT_HASH_TAG) ELSE n1
        did_del == has_link \/ has_hash
    IN  [n |-> n2, status |-> IF did_del THEN "ok" ELSE "KeyError"]

_get_next_str_slot(nn) == suplast(nn, STR_KEYS_TAG)

_strset(nn, key, value) ==
    LET n1 == _strdel(nn, key).n
        intkey == suplast(n1, STR_KEYS_TAG)
    IN  IF len(value) > BLOB_SIZE
        THEN hashset(setblob(n1, value, intkey, STR_KEYS_TAG), key, intkey, STR_TO_INT_MAP_TAG)
        ELSE hashset(n1, key, value, DEFAULT_HASH_TAG)

\* _strget that treats a forwarding record without blob as an absent key
_strget_absent_blob(nn, key) ==
    IF /\ hashval_is_set(nn, key, STR_TO_INT_MAP_TAG)
       /\ getblob_is_set(nn, hashval(nn, key, STR_TO_INT_MAP_TAG), STR_KEYS_TAG)
    THEN Returned(getblob(nn, hashval(nn, key, STR_TO_INT_MAP_TAG), STR_KEYS_TAG))
    ELSE IF hashval_is_set(nn, key, DEFAULT_HASH_TAG)
    THEN Returned(hashval(nn, key, DEFAULT_HASH_TAG))
    ELSE Raised("KeyError")

_strget(nn, key) ==
    IF hashval_is_set(nn, key, STR_TO_INT_MAP_TAG)
    THEN LET intkey == hashval(nn, key, STR_TO_INT_MAP_TAG)
         IN  IF getblob_is_set(nn, intkey, STR_KEYS_TAG)
             THEN Returned(getblob(nn, intkey, STR_KEYS_TAG))
             ELSE Raised("NetnodeCorruptError")
    ELSE IF hashval_is_set(nn, key, DEFAULT_HASH_TAG)
    THEN Returned(hashval(nn, key, DEFAULT_HASH_TAG))
    ELSE Raised("KeyError")

\* ---- the mapping interface, as functions of the netnode ----
__getitem__(nn, key) ==
    LET r == IF key.kind = "str" THEN _strget(nn, key.id)
             ELSE IF key.kind = "int" THEN _intget(nn, key.id)
             ELSE Raised("TypeError")
    IN  IF r.status = "ok" THEN Returned(_decode(_decompress(r.value))) ELSE r

\* get that lets KeyError through
get_no_except(nn, key, default) == __getitem__(nn, key)

get(nn, key, default) ==
    LET r == __getitem__(nn, key)
    IN  IF r.status = "KeyError" THEN Returned(default) ELSE r

\* __contains__ that answers False on every exception
__contains___except_all(nn, key) ==
    LET r == __getitem__(nn, key)
    IN  IF r.status = "ok" THEN Returned(r.value # NoValue) ELSE Returned(FALSE)

__contains__(nn, key) ==
    LET r == __getitem__(nn, key)
    IN  IF r.status = "ok" THEN Returned(r.value # NoValue)
        ELSE IF r.status = "KeyError" THEN Returned(FALSE)
        ELSE r

\* the netnode after del self[key], and the outcome of the call
__delitem__(nn, key) ==
    IF key.kind = "str" THEN _strdel(nn, key.id)
    ELSE IF key.kind = "int" THEN _intdel(nn, key.id)
    ELSE [n |-> nn, status |-> "TypeError"]

RECURSIVE SupTour(_, _, _)
SupTour(nn, tag, i) ==
    IF i # BADNODE
    THEN <<[kind |-> "int", id |-> i]>> \o SupTour(nn, tag, supnxt(nn, i, tag))
    ELSE <<>>

RECURSIVE HashTour(_, _, _)
HashTour(nn, tag, i) ==
    IF i # BADNODE
    THEN <<[kind |-> "str", id |-> i]>> \o HashTour(nn, tag, hashnxt(nn, i, tag))
    ELSE <<>>

\* iterkeys whose last tour walks the forwarding table
iterkeys_tour_map(nn) ==
    SupTour(nn, DEFAULT_SUP_TAG, sup1st(nn, DEFAULT_SUP_TAG))
        \o SupTour(nn, INT_KEYS_TAG, sup1st(nn, INT_KEYS_TAG))
        \o HashTour(nn, DEFAULT_HASH_TAG, hash1st(nn, DEFAULT_HASH_TAG))
        \o HashTour(nn, STR_TO_INT_MAP_TAG, hash1st(nn, STR_TO_INT_MAP_TAG))

iterkeys(nn) ==
    SupTour(nn, DEFAULT_SUP_TAG, sup1st(nn, DEFAULT_SUP_TAG))
        \o SupTour(nn, INT_KEYS_TAG, sup1st(nn, INT_KEYS_TAG))
        \o HashTour(nn, DEFAULT_HASH_TAG, hash1st(nn, DEFAULT_HASH_TAG))
        \o HashTour(nn, STR_KEYS_TAG, hash1st(nn, STR_KEYS_TAG))

keys(nn) == iterkeys(nn)

\* the arrays of the netnode that hold at least one element
Occupied(nn) ==
    {<<"sup", t>> : t \in {t \in SupTags : DOMAIN nn.sup[t] # {}}}
        \cup {<<"hash", t>> : t \in {t \in HashTags : DOMAIN nn.hash[t] # {}}}

Call(op, key, value, status, had) ==
    [op |-> op, key |-> key, value |-> value, status |-> status, had |-> had]

\* ---- the state machine ----
Init ==
    /\ n = netnode
    /\ live = {}
    /\ written = {}
    /\ last = Call("init", [kind |-> "other", id |-> 0], NoValue, "ok", {})

\* __setitem__ that takes every key that is not a string for an integer
SetItem_no_type_check(key, value) ==
    LET v == _compress(_encode(value))
    IN  \/ /\ key.kind = "str"
           /\ n' = _strset(n, key.id, v)
           /\ live' = live \cup {key}
           /\ written' = written \cup {key}
           /\ last' = Call("set", key, value, "ok", {})
        \/ /\ key.kind # "str"
           /\ n' = _intset(n, key.id, v)
           /\ live' = IF key \in ValidKeys THEN live \cup {key} ELSE live
           /\ written' = IF key \in ValidKeys THEN written \cup {key} ELSE written
           /\ last' = Call("set", key, value, "ok", {})

\* Netnode.__setitem__(key, value)
SetItem(key, value) ==
    LET v == _compress(_encode(value))
    IN  \/ /\ key.kind = "str"
           /\ n' = _strset(n, key.id, v)
           /\ live' = live \cup {key}
           /\ written' = written \cup {key}
           /\ last' = Call("set", key, value, "ok", {})
        \/ /\ key.kind = "int"
           /\ n' = _intset(n, key.id, v)
           /\ live' = live \cup {key}
           /\ written' = written \cup {key}
           /\ last' = Call("set", key, value, "ok", {})
        \/ /\ key.kind = "other"
           /\ last' = Call("set", key, value, "TypeError", {})
           /\ UNCHANGED <<n, live, written>>

\* Netnode.__delitem__(key)
DelItem(key) ==
    \/ /\ key.kind = "str"
       /\ LET r == _strdel(n, key.id)
          IN  /\ n' = r.n
              /\ live' = IF r.status = "ok" THEN live \ {key} ELSE live
              /\ last' = Call("del", key, NoValue, r.status, {})
       /\ UNCHANGED written
    \/ /\ key.kind = "int"
       /\ LET r == _intdel(n, key.id)
          IN  /\ n' = r.n
              /\ live' = IF r.status = "ok" THEN live \ {key} ELSE live
              /\ last' = Call("del", key, NoValue, r.status, {})
       /\ UNCHANGED written
    \/ /\ key.kind = "other"
       /\ last' = Call("del", key, NoValue, "TypeError", {})
       /\ UNCHANGED <<n, live, written>>

\* kill that reopens the netnode without destroying it
kill_reopen_only ==
    /\ n' = n
    /\ live' = {}
    /\ last' = Call("kill", [kind |-> "other", id |-> 0], NoValue, "ok", Occupied(n))
    /\ UNCHANGED written

\* Netnode.kill()
kill ==
    /\ n' = netnode
    /\ live' = {}
    /\ last' = Call("kill", [kind |-> "other", id |-> 0], NoValue, "ok", Occupied(n))
    /\ UNCHANGED written

Next ==
    \/ \E key \in AllKeys, value \in Values : SetItem(key, value)
    \/ \E key \in AllKeys : DelItem(key)
    \/ kill

Spec == Init /\ [][Next]_vars

TypeOK ==
    /\ live \subseteq ValidKeys
    /\ written \subseteq ValidKeys
    /\ live \subseteq written
    /\ last.op \in {"init", "set", "del", "kill"}


\* ---- properties ----

\* C1: round trip. In every reachable state, right after a successful
\* set(key, value) on a valid key, get(key) returns a value equal to value.
C1_RoundTrip ==
    (last.op = "set" /\ last.status = "ok")
        => __getitem__(n, last.key) = Returned(last.value)

\* C2: overwrite across size classes. When set(key, v1) is immediately followed by
\* set(key, v2) on the same key with v2 in the other size class (small then large,
\* or large then small), get(key) returns v2.
C2_OverwriteAcrossSizes ==
    [][ ( /\ last.op = "set" /\ last.status = "ok"
          /\ last'.op = "set" /\ last'.status = "ok"
          /\ last'.key = last.key
          /\ (CompressedLen(last.value) > BLOB_SIZE) # (CompressedLen(last'.value) > BLOB_SIZE) )
        => __getitem__(n', last'.key) = Returned(last'.value) ]_vars

\* C3: enumeration completeness without duplicates. In every reachable state the
\* elements of keys() are exactly the live keys, and keys() holds no element twice.
C3_KeysAreLiveKeys ==
    LET ks == keys(n)
    IN  /\ {ks[i] : i \in 1..Len(ks)} = live
        /\ \A i, j \in 1..Len(ks) : ks[i] = ks[j] => i = j

\* C4: deletion completeness. When set(key, v) is immediately followed by
\* delete(key), then get(key) raises KeyError, contains(key) is false and keys()
\* does not hold key.
C4_DeleteAfterSet ==
    [][ ( /\ last.op = "set" /\ last.status = "ok"
          /\ last'.op = "del"
          /\ last'.key = last.key )
        => /\ __getitem__(n', last.key) = Raised("KeyError")
           /\ __contains__(n', last.key) = Returned(FALSE)
           /\ \A i \in 1..Len(keys(n')) : keys(n')[i] # last.key ]_vars

\* C5: no corruption through the public interface. In every reachable state every
\* forwarding record (string key -> generated integer) has its target blob, and
\* get raises NetnodeCorruptError for no key.
C5_NoDanglingLink ==
    /\ \A key \in 1..MaxStrKey :
          hashval_is_set(n, key, STR_TO_INT_MAP_TAG)
              => getblob_is_set(n, hashval(n, key, STR_TO_INT_MAP_TAG), STR_KEYS_TAG)
    /\ \A key \in ValidKeys : __getitem__(n, key).status # "NetnodeCorruptError"

\* C6: corruption detection. Whenever a string key has a forwarding record whose
\* target blob is absent, get(key) raises NetnodeCorruptError (not KeyError),
\* whether or not a direct hash slot for the key exists too.
C6_CorruptionDetected ==
    \A key \in 1..MaxStrKey :
        ( /\ hashval_is_set(n, key, STR_TO_INT_MAP_TAG)
          /\ ~ getblob_is_set(n, hashval(n, key, STR_TO_INT_MAP_TAG), STR_KEYS_TAG) )
            => __getitem__(n, [kind |-> "str", id |-> key]) = Raised("NetnodeCorruptError")

\* C6 witness: two string keys with a forwarding record and no blob, one of them
\* with a direct hash slot and one without.
C6_Witness ==
    \E k1, k2 \in 1..MaxStrKey :
        /\ hashval_is_set(n, k1, STR_TO_INT_MAP_TAG)
        /\ hashval_is_set(n, k2, STR_TO_INT_MAP_TAG)
        /\ ~ getblob_is_set(n, hashval(n, k1, STR_TO_INT_MAP_TAG), STR_KEYS_TAG)
        /\ ~ getblob_is_set(n, hashval(n, k2, STR_TO_INT_MAP_TAG), STR_KEYS_TAG)
        /\ hashval_is_set(n, k1, DEFAULT_HASH_TAG)
        /\ ~ hashval_is_set(n, k2, DEFAULT_HASH_TAG)

\* C7: not found on unset. In every reachable state, for every valid key that was
\* never written, get(key) raises KeyError, get(key, D) returns D for every D and
\* contains(key) is false.
C7_NotFoundOnUnset ==
    \A key \in ValidKeys \ written :
        /\ __getitem__(n, key) = Raised("KeyError")
        /\ \A D \in Values \cup {NoValue} : get(n, key, D) = Returned(D)
        /\ __contains__(n, key) = Returned(FALSE)

\* C7 witness: an integer key and a string key were never written while another
\* string key holds a large value behind a forwarding record.
C7_Witness ==
    /\ IntKeys \ written # {}
    /\ StrKeys \ written # {}
    /\ \E key \in 1..MaxStrKey :
          /\ [kind |-> "str", id |-> key] \in written
          /\ hashval_is_set(n, key, STR_TO_INT_MAP_TAG)
          /\ getblob_is_set(n, hashval(n, key, STR_TO_INT_MAP_TAG), STR_KEYS_TAG)

\* C8: reset. Right after kill(), keys() is empty and get(key) raises KeyError for
\* every key ever set; and a set(key, value) that directly follows a kill() is read
\* back by get(key).
C8_Reset ==
    /\ [](last.op = "kill"
            => /\ keys(n) = <<>>
               /\ \A key \in written : __getitem__(n, key) = Raised("KeyError"))
    /\ [][ (last.op = "kill" /\ last'.op = "set" /\ last'.status = "ok")
            => __getitem__(n', last'.key) = Returned(last'.value) ]_vars

\* C8 witness: kill() acted on a netnode that held all four placements (direct
\* integer slot, integer blob, direct hash slot, string blob with its forwarding
\* record), with every valid key written before.
C8_Witness ==
    /\ last.op = "kill"
    /\ written = ValidKeys
    /\ last.had = {<<"sup", DEFAULT_SUP_TAG>>, <<"sup", INT_KEYS_TAG>>, <<"sup", STR_KEYS_TAG>>,
                   <<"hash", DEFAULT_HASH_TAG>>, <<"hash", STR_TO_INT_MAP_TAG>>}

\* C9 (I1): in every reachable state no string key has both a direct hash slot and
\* a forwarding record.
C9_StrOnePlacement ==
    \A key \in 1..MaxStrKey :
        ~ ( /\ hashval_is_set(n, key, DEFAULT_HASH_TAG)
            /\ hashval_is_set(n, key, STR_TO_INT_MAP_TAG) )

\* C10 (I2): in every reachable state no integer key has both a direct slot in the
\* default space and a blob in the int-blob space.
C10_IntOnePlacement ==
    \A key \in 1..MaxIntKey :
        ~ ( /\ supval_is_set(n, key, DEFAULT_SUP_TAG)
            /\ getblob_is_set(n, key, INT_KEYS_TAG) )

\* C10 witness: a set just placed an integer key in the int-blob space.
C10_Witness ==
    /\ last.op = "set"
    /\ last.key \in IntKeys
    /\ getblob_is_set(n, last.key.id, INT_KEYS_TAG)

\* C11 (I5): in every reachable state no two distinct string keys have forwarding
\* records that resolve to the same generated integer blob key.
C11_DistinctBlobKeys ==
    \A k1, k2 \in 1..MaxStrKey :
        ( /\ k1 # k2
          /\ hashval_is_set(n, k1, STR_TO_INT_MAP_TAG)
          /\ hashval_is_set(n, k2, STR_TO_INT_MAP_TAG) )
            => hashval(n, k1, STR_TO_INT_MAP_TAG) # hashval(n, k2, STR_TO_INT_MAP_TAG)

\* C12: single occurrence under overwrite. When set(key, v1) is immediately
\* followed by set(key, v2) on the same key with v2 in the other size class, keys()
\* holds key exactly once.
C12_OnceUnderOverwrite ==
    [][ ( /\ last.op = "set" /\ last.status = "ok"
          /\ last'.op = "set" /\ last'.status = "ok"
          /\ last'.key = last.key
          /\ (CompressedLen(last.value) > BLOB_SIZE) # (CompressedLen(last'.value) > BLOB_SIZE) )
        => Cardinality({i \in 1..Len(keys(n')) : keys(n')[i] = last'.key}) = 1 ]_vars

\* C13: in every reachable state, delete(key) on a valid key raises KeyError
\* exactly when the key is not live (never written, or deleted and not set since),
\* and then leaves the store unchanged.
C13_DeleteRaisesIffNotLive ==
    \A key \in ValidKeys :
        LET r == __delitem__(n, key)
        IN  /\ (r.status = "KeyError") <=> (key \notin live)
            /\ (r.status = "KeyError") => (r.n = n)

C15_OverflowRouting ==
    (last.op = "set" /\ last.status = "ok")
        => LET key == last.key
               direct == IF key.kind = "int"
                         THEN supval_is_set(n, key.id, DEFAULT_SUP_TAG)
                         ELSE hashval_is_set(n, key.id, DEFAULT_HASH_TAG)
               link == key.kind = "str" /\ hashval_is_set(n, key.id, STR_TO_INT_MAP_TAG)
               blob == IF key.kind = "int"
                       THEN getblob_is_set(n, key.id, INT_KEYS_TAG)
                       ELSE link /\ getblob_is_set(n, hashval(n, key.id, STR_TO_INT_MAP_TAG),
                                                   STR_KEYS_TAG)
           IN  IF CompressedLen(last.value) <= BLOB_SIZE
               THEN direct /\ ~ blob /\ ~ link
               ELSE blob /\ ~ direct

\* C16: invalid key type. In every reachable state get on a key that is neither an
\* integer nor a string raises TypeError (not KeyError, not NetnodeCorruptError);
\* every set and delete on such a key raises TypeError and leaves the store
\* unchanged.
C16_InvalidKeyType ==
    /\ [](\A key \in OtherKeys :
            /\ __getitem__(n, key) = Raised("TypeError")
            /\ __delitem__(n, key) = [n |-> n, status |-> "TypeError"])
    /\ [][ (last'.op \in {"set", "del"} /\ last'.key \in OtherKeys)
            => (last'.status = "TypeError" /\ n' = n) ]_vars

\* C16 witness: a set on a key of another type was just refused on a store that
\* holds integer and string keys.
C16_Witness ==
    /\ last.op = "set"
    /\ last.key \in OtherKeys
    /\ last.status = "TypeError"
    /\ live \cap IntKeys # {}
    /\ live \cap StrKeys # {}

C18_KeyIndependence ==
    [][ (last'.op \in {"set", "del"})
        => \A k2 \in ValidKeys \ {last'.key} :
              __getitem__(n', k2) = __getitem__(n, k2) ]_vars

\* C19: enumerated keys are readable. In every reachable state get(k) succeeds for
\* every k in keys(), so values() and items() do not raise.
C19_EnumeratedKeysReadable ==
    \A i \in 1..Len(keys(n)) : __getitem__(n, keys(n)[i]).status = "ok"

\* C20: no orphaned storage. In every reachable state every blob of the 'N' array
\* is the target of exactly one forwarding record, and every forwarding record,
\* blob and direct slot belongs to a live key.
C20_NoOrphans ==
    /\ \A b \in DOMAIN n.sup[STR_KEYS_TAG] :
          Cardinality({k \in DOMAIN n.hash[STR_TO_INT_MAP_TAG] :
                          hashval(n, k, STR_TO_INT_MAP_TAG) = b}) = 1
    /\ \A k \in DOMAIN n.hash[STR_TO_INT_MAP_TAG] : [kind |-> "str", id |-> k] \in live
    /\ \A k \in DOMAIN n.hash[DEFAULT_HASH_TAG] : [kind |-> "str", id |-> k] \in live
    /\ \A k \in DOMAIN n.sup[DEFAULT_SUP_TAG] : [kind |-> "int", id |-> k] \in live
    /\ \A k \in DOMAIN n.sup[INT_KEYS_TAG] : [kind |-> "int", id |-> k] \in live

=============================================================================
